---- MODULE Spec2Model ----
(***************************************************************************)
(* Model of src/rust/src/main.rs: a single-threaded driver of a regtest    *)
(* Bitcoin Core node over JSON-RPC.  One action per RPC call of main(),    *)
(* each covering the call, the `?` / panic on its result and the local     *)
(* code that follows it up to the next call.  The node's answers are the   *)
(* inputs: every action draws its answer from a small set.                 *)
(***************************************************************************)
EXTENDS Integers, Sequences, FiniteSets

(***************************************************************************)
(* Bounds of the model.                                                    *)
(***************************************************************************)
\* longest decoded.vout list the node hands back for the transfer
MaxOuts == 2
\* longest decoded.vout list the node hands back for the funding transaction
MaxInOuts == 2

(***************************************************************************)
(* Program constants.                                                      *)
(***************************************************************************)
\* main.rs:89-90 "Coinbase transactions require 100 confirmations"
COINBASE_MATURITY == 100
\* a variant of FundingBlocks: the maturity alone, without the margin
FundingBlocksMaturityOnly == COINBASE_MATURITY
\* main.rs:91  rpc.generate_to_address(103, ..)
FundingBlocks == 103
\* a variant of ConfirmBlocks: one block too many
ConfirmBlocksTwo == 1 + 1
\* main.rs:106 rpc.generate_to_address(1, ..)
ConfirmBlocks == 1
\* main.rs:97  json!(20.0)
SendAmount == 20

Wallets == <<"Miner", "Trader">>

(***************************************************************************)
(* serde_json::Value, as far as main() looks at it.  A scalar is null, a   *)
(* number or a string; indexing a missing key yields Null (Index), while   *)
(* .get() tells a missing key from a present one.                          *)
(***************************************************************************)
Null == [t |-> "null", n |-> 0, s |-> ""]
Num(x) == [t |-> "num", n |-> x, s |-> ""]
Str(x) == [t |-> "str", n |-> 0, s |-> x]

\* Value::as_f64 / as_i64 followed by unwrap_or(d)
as_num_or(j, d) == IF j.t = "num" THEN j.n ELSE d
\* Value::as_str followed by unwrap_or(d)
as_str_or(j, d) == IF j.t = "str" THEN j.s ELSE d
\* Value::as_u64().is_some(): a non-negative integer
is_u64(j) == j.t = "num" /\ j.n >= 0
\* Value::as_str().is_some()
is_str(j) == j.t = "str"

\* a value that is not an array (missing key, null, object, ...)
NotArray == [arr |-> FALSE, items |-> <<>>]
Array(xs) == [arr |-> TRUE, items |-> xs]

\* out["scriptPubKey"]: not an object, or an object with an optional
\* "address" member and an "asm" member (Null when missing)
NoSpk == [obj |-> FALSE, has_address |-> FALSE, address |-> Null, asm |-> Null]
Spk(has, addr, asm) ==
    [obj |-> TRUE, has_address |-> has, address |-> addr, asm |-> asm]

\* one output of a decoded transaction
Out(value, spk) == [value |-> value, scriptPubKey |-> spk]
\* one input of a decoded transaction
In(txid, vout) == [txid |-> txid, vout |-> vout]
\* a gettransaction record (verbose): decoded.vin, decoded.vout and the
\* wallet's blockheight, blockhash and fee members
Tx(vin, vout, bh, hash, fee) ==
    [decoded |-> [vin |-> vin, vout |-> vout],
     blockheight |-> bh, blockhash |-> hash, fee |-> fee]

\* the value of a local before it is bound and after it is dropped
NoOut == Out(Null, NoSpk)
NoTx == Tx(NotArray, NotArray, Null, Null, Null)

(***************************************************************************)
(* State.                                                                  *)
(***************************************************************************)
VARIABLES
    pc,              \* the next call of main(), or how main() ended
    wi,              \* index into ["Miner", "Trader"] of the loop at line 52
    calls,           \* every client construction and RPC call made, in order
    result,          \* of the last of them: "ok" or the error's text
    error,           \* what ended the run ("" while it runs or after Ok(()))
    mining_address,  \* main.rs:75-86
    trader_address,  \* main.rs:94
    txid,            \* main.rs:97
    tx_info,         \* main.rs:109
    input_vout_obj,  \* main.rs:130
    file,            \* ../out.txt: whether this run created it, and its lines
    height,          \* node: chain height
    coinbases,       \* node: batches of blocks whose coinbase pays mining_address
    nodeTx           \* node: the transfer is "none", in the "mempool" or "confirmed"

vars == <<pc, wi, calls, result, error, mining_address, trader_address, txid, tx_info,
          input_vout_obj, file, height, coinbases, nodeTx>>

locals == <<wi, mining_address, trader_address, txid, tx_info, input_vout_obj>>
node == <<height, coinbases, nodeTx>>

Terminal == {"done", "err", "panic"}

\* error texts of the node and the transport; "ok" stands for an Ok result
ExistsText == "Database already exists."
OtherText == "RPC error"
\* variants of contains_already_exists: the whole text compared, and any
\* error text accepted
equals_already_exists(e) == e = "already exists"
any_error_text(e) == TRUE
\* main.rs:55  e.to_string().contains("already exists")
contains_already_exists(e) == e = ExistsText

\* a call as the log keeps it: method, session, string and number argument
Call(m, w, s, n) == [m |-> m, w |-> w, s |-> s, n |-> n]

Init ==
    /\ pc = "new_rpc"
    /\ wi = 1
    /\ calls = <<>>
    /\ result = "ok"
    /\ error = ""
    /\ mining_address = ""
    /\ trader_address = ""
    /\ txid = ""
    /\ tx_info = NoTx
    /\ input_vout_obj = NoOut
    /\ file = [created |-> FALSE, lines |-> <<>>]
    /\ height = 0
    /\ coinbases = <<>>
    /\ nodeTx = "none"

(***************************************************************************)
(* The node, as far as the run observes it.                                *)
(***************************************************************************)
\* generatetoaddress n addr: n blocks on top of the chain, paying addr;
\* a transaction waiting in the mempool is confirmed by the first of them
NodeGenerate(n) ==
    /\ height' = height + n
    /\ coinbases' = Append(coinbases, [lo |-> height + 1, hi |-> height + n])
    /\ nodeTx' = IF nodeTx = "mempool" THEN "confirmed" ELSE nodeTx

Max(a, b) == IF a >= b THEN a ELSE b
Min(a, b) == IF a <= b THEN a ELSE b

RECURSIVE SpendableIn(_, _)
\* coinbase outputs of the batches cb with COINBASE_MATURITY blocks on top
SpendableIn(cb, h) ==
    IF cb = <<>> THEN 0
    ELSE Max(0, Min(Head(cb).hi, h - COINBASE_MATURITY) - Head(cb).lo + 1)
         + SpendableIn(Tail(cb), h)

\* the mining wallet's spendable coinbase outputs (its balance, in rewards)
Spendable == SpendableIn(coinbases, height)

RECURSIVE BlocksIn(_)
BlocksIn(cb) ==
    IF cb = <<>> THEN 0 ELSE Head(cb).hi - Head(cb).lo + 1 + BlocksIn(Tail(cb))
\* blocks mined to mining_address
BlocksMined == BlocksIn(coinbases)

(***************************************************************************)
(* How main() ends.                                                        *)
(***************************************************************************)
\* main() is left (Err through `?`, a panic, or Ok(())): its locals are dropped
Exit(how, why) ==
    /\ pc' = how
    /\ error' = why
    /\ wi' = 1
    /\ mining_address' = ""
    /\ trader_address' = ""
    /\ txid' = ""
    /\ tx_info' = NoTx
    /\ input_vout_obj' = NoOut

\* the call c is made and answered by r
Answered(c, r) ==
    /\ calls' = Append(calls, c)
    /\ result' = r

\* a variant of Failed: the failed call is issued again
FailedAndRetried(c) ==
    /\ Answered(c, OtherText)
    /\ UNCHANGED <<pc, error, locals, file, node>>

\* the call c fails, and the error leaves main() through `?`
Failed(c) ==
    /\ Answered(c, OtherText)
    /\ Exit("err", c.m)
    /\ UNCHANGED <<file, node>>

\* the call c succeeds and main() goes on at `next`
Goes(c, next) ==
    /\ Answered(c, "ok")
    /\ pc' = next
    /\ error' = ""

(***************************************************************************)
(* main.rs:42-49                                                           *)
(***************************************************************************)
NewRpc ==
    /\ pc = "new_rpc"
    /\ \/ /\ Goes(Call("Client::new", "node", "", 0), "info")
          /\ UNCHANGED <<locals, file, node>>
       \/ Failed(Call("Client::new", "node", "", 0))

GetBlockchainInfo ==
    /\ pc = "info"
    /\ \/ /\ Goes(Call("getblockchaininfo", "node", "", 0), "createwallet")
          /\ UNCHANGED <<locals, file, node>>
       \/ Failed(Call("getblockchaininfo", "node", "", 0))

(***************************************************************************)
(* main.rs:52-61: the wallet loop                                          *)
(***************************************************************************)
\* where main() goes on after the loop body for Wallets[wi]
AfterWallet ==
    /\ pc' = IF wi < Len(Wallets) THEN "createwallet" ELSE "new_miner"
    /\ wi' = IF wi < Len(Wallets) THEN wi + 1 ELSE wi
    /\ error' = ""
    /\ UNCHANGED <<mining_address, trader_address, txid, tx_info,
                   input_vout_obj, file, node>>

CreateWallet ==
    /\ pc = "createwallet"
    /\ \/ /\ Answered(Call("createwallet", "node", Wallets[wi], 0), "ok")
          /\ AfterWallet
       \/ \E e \in {ExistsText, OtherText} :
            /\ Answered(Call("createwallet", "node", Wallets[wi], 0), e)
            /\ IF ~contains_already_exists(e)
               THEN \* panic!("Failed to create wallet: {e}")
                    /\ Exit("panic", "Failed to create wallet")
                    /\ UNCHANGED <<file, node>>
               ELSE /\ pc' = "loadwallet"
                    /\ error' = ""
                    /\ UNCHANGED <<locals, file, node>>

\* let _ = rpc.call("loadwallet", ..): the result is dropped
LoadWallet ==
    /\ pc = "loadwallet"
    /\ \E r \in {"ok", OtherText} :
          Answered(Call("loadwallet", "node", Wallets[wi], 0), r)
    /\ AfterWallet

(***************************************************************************)
(* main.rs:64-72: the wallet sessions                                      *)
(***************************************************************************)
NewMiner ==
    /\ pc = "new_miner"
    /\ \/ /\ Goes(Call("Client::new", "Miner", "", 0), "new_trader")
          /\ UNCHANGED <<locals, file, node>>
       \/ Failed(Call("Client::new", "Miner", "", 0))

NewTrader ==
    /\ pc = "new_trader"
    /\ \/ /\ Goes(Call("Client::new", "Trader", "", 0), "mining_address")
          /\ UNCHANGED <<locals, file, node>>
       \/ Failed(Call("Client::new", "Trader", "", 0))

(***************************************************************************)
(* main.rs:74-91: the funding stage                                        *)
(***************************************************************************)
\* what the node may answer to getnewaddress in the Miner wallet
MinerAddresses == {"bcrt1qminer", "bc1qmainnet", "garbage"}
\* Address::from_str succeeds
parses(a) == a \in {"bcrt1qminer", "bcrt1qtrader", "bc1qmainnet"}
\* require_network(Network::Regtest) succeeds
is_regtest(a) == a \in {"bcrt1qminer", "bcrt1qtrader"}

GetMiningAddress ==
    /\ pc = "mining_address"
    /\ \/ \E a \in MinerAddresses :
            LET c == Call("getnewaddress", "Miner", "Mining Reward", 0) IN
            IF parses(a) /\ is_regtest(a)
            THEN /\ Goes(c, "fund")
                 /\ mining_address' = a
                 /\ UNCHANGED <<wi, trader_address, txid, tx_info, input_vout_obj,
                                file, node>>
            ELSE \* map_err(.. RpcError::UnexpectedStructure)?
                 /\ Answered(c, "ok")
                 /\ Exit("err", "UnexpectedStructure")
                 /\ UNCHANGED <<file, node>>
       \/ Failed(Call("getnewaddress", "Miner", "Mining Reward", 0))

Fund ==
    /\ pc = "fund"
    /\ \/ /\ Goes(Call("generatetoaddress", "node", mining_address, FundingBlocks),
                  "trader_address")
          /\ NodeGenerate(FundingBlocks)
          /\ UNCHANGED <<locals, file>>
       \/ Failed(Call("generatetoaddress", "node", mining_address, FundingBlocks))

(***************************************************************************)
(* main.rs:93-106: the transfer stage                                      *)
(***************************************************************************)
TraderAddresses == {"bcrt1qtrader"}
Txids == {"tx1"}

GetTraderAddress ==
    /\ pc = "trader_address"
    /\ \/ \E a \in TraderAddresses :
            /\ Goes(Call("getnewaddress", "Trader", "Trader Address", 0), "send")
            /\ trader_address' = a
            /\ UNCHANGED <<wi, mining_address, txid, tx_info, input_vout_obj,
                           file, node>>
       \/ Failed(Call("getnewaddress", "Trader", "Trader Address", 0))

SendToAddress ==
    /\ pc = "send"
    /\ \/ \E id \in Txids :
            \* the node funds the transfer from a spendable coinbase output
            /\ Spendable > 0
            /\ Goes(Call("sendtoaddress", "Miner", trader_address, SendAmount),
                    "mempool")
            /\ txid' = id
            /\ nodeTx' = "mempool"
            /\ UNCHANGED <<wi, mining_address, trader_address, tx_info,
                           input_vout_obj, file, height, coinbases>>
       \/ Failed(Call("sendtoaddress", "Miner", trader_address, SendAmount))

\* what getmempoolentry may answer: the entry is printed and dropped
MempoolEntries == {"entry-a", "entry-b"}

GetMempoolEntry ==
    /\ pc = "mempool"
    /\ \/ \E mempool_entry \in MempoolEntries :
            /\ Goes(Call("getmempoolentry", "Miner", txid, 0), "confirm")
            /\ UNCHANGED <<locals, file, node>>
       \/ Failed(Call("getmempoolentry", "Miner", txid, 0))

Confirm ==
    /\ pc = "confirm"
    /\ \/ /\ Goes(Call("generatetoaddress", "node", mining_address, ConfirmBlocks),
                  "gettransaction")
          /\ NodeGenerate(ConfirmBlocks)
          /\ UNCHANGED <<locals, file>>
       \/ Failed(Call("generatetoaddress", "node", mining_address, ConfirmBlocks))

(***************************************************************************)
(* main.rs:108-177: the extraction stage                                   *)
(***************************************************************************)
\* Index of a scriptPubKey by "asm": Null unless it is an object holding one
spk_asm(spk) == IF spk.obj THEN spk.asm ELSE Null
\* scriptPubKey.get("address").is_some()
spk_has_address(spk) == spk.obj /\ spk.has_address

\* a variant of blockhash: the empty string for a missing hash
blockhash_or_empty(tx) == as_str_or(tx.blockhash, "")
\* main.rs:114-116
blockheight(tx) == as_num_or(tx.blockheight, 0)
blockhash(tx) == as_str_or(tx.blockhash, "unknown")
fee(tx) == as_num_or(tx.fee, 0)

\* main.rs:119-121: the three unwrap()s and the index vin[0] succeed
vin_ok(tx) ==
    /\ tx.decoded.vin.arr
    /\ Len(tx.decoded.vin.items) >= 1
    /\ is_str(tx.decoded.vin.items[1].txid)
    /\ is_u64(tx.decoded.vin.items[1].vout)
input_txid(tx) == tx.decoded.vin.items[1].txid.s
input_vout(tx) == tx.decoded.vin.items[1].vout.n

\* a variant of miner_input_address: no fallback to asm
miner_input_address_no_asm(o) ==
    IF spk_has_address(o.scriptPubKey) /\ is_str(o.scriptPubKey.address)
    THEN o.scriptPubKey.address.s
    ELSE "unknown"

\* main.rs:133-148
miner_input_address(o) ==
    IF spk_has_address(o.scriptPubKey)
    THEN IF is_str(o.scriptPubKey.address)
         THEN o.scriptPubKey.address.s
         ELSE as_str_or(spk_asm(o.scriptPubKey), "unknown")
    ELSE as_str_or(spk_asm(o.scriptPubKey), "unknown")

\* main.rs:150
miner_input_amount(o) == as_num_or(o.value, 0)

\* main.rs:154-157: the four accumulators before the loop
NoMatch ==
    [trader_output_address |-> "", trader_output_amount |-> 0,
     miner_change_address |-> "", miner_change_amount |-> 0]

\* a variant of classify_one: the first match of a category is kept
classify_one_first_match(acc, out, trader) ==
    IF out.value.t = "num" /\ spk_has_address(out.scriptPubKey)
       /\ is_str(out.scriptPubKey.address)
    THEN IF out.scriptPubKey.address.s = trader
         THEN IF acc.trader_output_address = ""
              THEN [acc EXCEPT !.trader_output_address = out.scriptPubKey.address.s,
                               !.trader_output_amount = out.value.n]
              ELSE acc
         ELSE IF acc.miner_change_address = ""
              THEN [acc EXCEPT !.miner_change_address = out.scriptPubKey.address.s,
                               !.miner_change_amount = out.value.n]
              ELSE acc
    ELSE acc

\* main.rs:160-176: the loop body for one output
classify_one(acc, out, trader) ==
    IF out.value.t = "num"
    THEN IF spk_has_address(out.scriptPubKey)
         THEN IF is_str(out.scriptPubKey.address)
              THEN IF out.scriptPubKey.address.s = trader
                   THEN [acc EXCEPT !.trader_output_address = out.scriptPubKey.address.s,
                                    !.trader_output_amount = out.value.n]
                   ELSE IF out.scriptPubKey.address.s # trader
                        THEN [acc EXCEPT
                                !.miner_change_address = out.scriptPubKey.address.s,
                                !.miner_change_amount = out.value.n]
                        ELSE acc
              ELSE acc
         ELSE acc
    ELSE acc

RECURSIVE classify_from(_, _, _)
\* main.rs:159: for out in vout, from the accumulators acc
classify_from(acc, outs, trader) ==
    IF outs = <<>> THEN acc
    ELSE classify_from(classify_one(acc, Head(outs), trader), Tail(outs), trader)

classify(outs, trader) == classify_from(NoMatch, outs, trader)

\* a variant of report_lines: the height written before the fee
report_lines_height_first(id, o, tx, trader) ==
    LET c == classify(tx.decoded.vout.items, trader) IN
    << Str(id),
       Str(miner_input_address(o)),
       Num(miner_input_amount(o)),
       Str(c.trader_output_address),
       Num(c.trader_output_amount),
       Str(c.miner_change_address),
       Num(c.miner_change_amount),
       Num(blockheight(tx)),
       Num(fee(tx)),
       Str(blockhash(tx)) >>

\* main.rs:181-190: the ten lines, as they are formatted
report_lines(id, o, tx, trader) ==
    LET c == classify(tx.decoded.vout.items, trader) IN
    << Str(id),
       Str(miner_input_address(o)),
       Num(miner_input_amount(o)),
       Str(c.trader_output_address),
       Num(c.trader_output_amount),
       Str(c.miner_change_address),
       Num(c.miner_change_amount),
       Num(fee(tx)),
       Num(blockheight(tx)),
       Str(blockhash(tx)) >>

RECURSIVE SeqsUpTo(_, _)
\* the sequences over S of length at most n
SeqsUpTo(S, n) ==
    IF n = 0 THEN {<<>>}
    ELSE LET shorter == SeqsUpTo(S, n - 1) IN
         shorter \cup {Append(q, x) : q \in {r \in shorter : Len(r) = n - 1}, x \in S}

\* what the node may hand back as one output of the transfer: a payment to
\* either address, an output without a value, one whose script has no
\* address (a data carrier), one whose address is not a string
TxOutputs ==
    {Out(Num(v), Spk(TRUE, Str(a), Null)) :
        v \in {20, 29}, a \in {"bcrt1qtrader", "bcrt1qchange"}}
    \cup {Out(Null, Spk(TRUE, Str("bcrt1qtrader"), Null)),
          Out(Num(20), Spk(FALSE, Null, Null)),
          Out(Num(29), Spk(TRUE, Null, Null))}
\* ... as its decoded.vout
TxVouts == {NotArray} \cup {Array(q) : q \in SeqsUpTo(TxOutputs, MaxOuts)}
\* ... as its decoded.vin
TxVins ==
    {NotArray, Array(<<>>)}
    \cup {Array(<<In(i, v)>>) : i \in {Null, Str("tx0")},
                                v \in {Null, Num(-1), Num(0), Num(1)}}
\* the gettransaction records the node may hand back for the transfer:
\* blockheight and blockhash are there once it is confirmed, fee when the
\* wallet paid it
TxInfos ==
    {Tx(vin, vout, conf[1], conf[2], f) :
        vin \in TxVins, vout \in TxVouts,
        conf \in {<<Null, Null>>, <<Num(104), Str("hash104")>>},
        f \in {Null, Num(-1)}}

\* what the node may hand back as one output of the funding transaction
InOutputs ==
    {Out(Num(50), k) :
        k \in {NoSpk,
               Spk(FALSE, Null, Null),
               Spk(FALSE, Null, Str("OP_0 6d696e6572")),
               Spk(TRUE, Null, Str("OP_0 6d696e6572")),
               Spk(TRUE, Str("bcrt1qminer"), Str("OP_0 6d696e6572"))}}
    \cup {Out(Null, Spk(TRUE, Str("bcrt1qminer"), Null))}
\* an output of the funding transaction that the transfer does not spend
OtherOutput == Out(Num(1), Spk(TRUE, Str("bcrt1qother"), Str("OP_0 6f74686572")))
\* decoded.vout of the funding transaction: n outputs, output k drawn from
\* InOutputs
InVouts ==
    {NotArray} \cup
    {Array([i \in 1..n |-> IF i = k THEN o ELSE OtherOutput]) :
        n \in 0..MaxInOuts, k \in 1..MaxInOuts, o \in InOutputs}

GetTransaction ==
    /\ pc = "gettransaction"
    /\ \/ \E tx \in TxInfos :
            LET c == Call("gettransaction", "Miner", txid, 0) IN
            IF vin_ok(tx)
            THEN /\ Goes(c, "input_tx")
                 /\ tx_info' = tx
                 /\ UNCHANGED <<wi, mining_address, trader_address, txid,
                                input_vout_obj, file, node>>
            ELSE \* unwrap() on None, or vin[0] out of bounds
                 /\ Answered(c, "ok")
                 /\ Exit("panic", "extraction")
                 /\ UNCHANGED <<file, node>>
       \/ Failed(Call("gettransaction", "Miner", txid, 0))

GetInputTransaction ==
    /\ pc = "input_tx"
    /\ \/ \E input_vouts \in InVouts :
            LET c == Call("gettransaction", "Miner", input_txid(tx_info), 0) IN
            IF /\ input_vouts.arr
               /\ input_vout(tx_info) < Len(input_vouts.items)
               /\ tx_info.decoded.vout.arr
            THEN /\ Goes(c, "write")
                 /\ input_vout_obj' = input_vouts.items[input_vout(tx_info) + 1]
                 /\ UNCHANGED <<wi, mining_address, trader_address, txid, tx_info,
                                file, node>>
            ELSE \* unwrap() on None (129, 153), or input_vouts[input_vout]
                 \* out of bounds (130)
                 /\ Answered(c, "ok")
                 /\ Exit("panic", "extraction")
                 /\ UNCHANGED <<file, node>>
       \/ Failed(Call("gettransaction", "Miner", input_txid(tx_info), 0))

(***************************************************************************)
(* main.rs:179-192: the report                                             *)
(***************************************************************************)
WriteReport ==
    /\ pc = "write"
    /\ LET lines == report_lines(txid, input_vout_obj, tx_info, trader_address) IN
       \/ \* File::create(..).expect("Unable to create out.txt")
          /\ Exit("panic", "Unable to create out.txt")
          /\ UNCHANGED <<calls, result, file, node>>
       \/ \* a writeln!(..)? fails after k lines
          \E k \in 0..(Len(lines) - 1) :
            /\ file' = [created |-> TRUE, lines |-> SubSeq(lines, 1, k)]
            /\ Exit("err", "io")
            /\ UNCHANGED <<calls, result, node>>
       \/ \* Ok(())
          /\ file' = [created |-> TRUE, lines |-> lines]
          /\ Exit("done", "")
          /\ UNCHANGED <<calls, result, node>>

Next ==
    \/ NewRpc
    \/ GetBlockchainInfo
    \/ CreateWallet
    \/ LoadWallet
    \/ NewMiner
    \/ NewTrader
    \/ GetMiningAddress
    \/ Fund
    \/ GetTraderAddress
    \/ SendToAddress
    \/ GetMempoolEntry
    \/ Confirm
    \/ GetTransaction
    \/ GetInputTransaction
    \/ WriteReport

Spec == Init /\ [][Next]_vars

(***************************************************************************)
(* Vocabulary of the properties.                                           *)
(***************************************************************************)
LastCall == calls[Len(calls)]
Aborted == {"err", "panic"}
IsPrefix(a, b) == Len(a) <= Len(b) /\ SubSeq(b, 1, Len(a)) = a
CallsOf(m) == {i \in 1..Len(calls) : calls[i].m = m}
\* a step of main() that leaves it with Ok(()), having written the report
Completes == pc = "write" /\ pc' = "done"

\* parts of C1: the state after createwallet answered "already exists", and
\* the state after loadwallet answered
C1_ExistsAwaitsLoad ==
    (calls # <<>> /\ LastCall.m = "createwallet" /\ result = ExistsText)
        => /\ pc = "loadwallet"
           /\ Wallets[wi] = LastCall.s

C1_LoadNeverFatal ==
    (calls # <<>> /\ LastCall.m = "loadwallet")
        => /\ pc \in {"createwallet", "new_miner"}
           /\ Len(calls) >= 2
           /\ calls[Len(calls) - 1] = Call("createwallet", "node", LastCall.s, 0)

(***************************************************************************)
(* C1: for each wallet name, when createwallet fails with an error whose   *)
(* text contains "already exists", the next call is loadwallet for that    *)
(* same wallet, and whatever loadwallet answers the run goes on (to the    *)
(* next wallet or to the wallet sessions): it never ends the run.          *)
(***************************************************************************)
C1_LoadOnAlreadyExists ==
    /\ C1_ExistsAwaitsLoad /\ C1_LoadNeverFatal
    /\ [][ /\ C1_ExistsAwaitsLoad' /\ C1_LoadNeverFatal'
           /\ pc = "loadwallet"
                => /\ calls' = Append(calls, Call("loadwallet", "node", Wallets[wi], 0))
                   /\ pc' \notin Aborted ]_vars

\* the Trader wallet existed, loading it failed, and the run goes on
C1_Witness ==
    /\ calls # <<>>
    /\ LastCall = Call("loadwallet", "node", "Trader", 0)
    /\ result = OtherText
    /\ pc = "new_miner"

(***************************************************************************)
(* C2: when createwallet fails with an error whose text does not contain   *)
(* "already exists", the run is over at once (a panic): that call is the   *)
(* last one, no loadwallet for that wallet, no getnewaddress, no block     *)
(* generation and no sendtoaddress was or is issued, no block is mined and *)
(* the output file is not written.                                         *)
(***************************************************************************)
C2_OtherCreateErrorAborts ==
    (calls # <<>> /\ LastCall.m = "createwallet"
       /\ result # "ok" /\ result # ExistsText)
        => /\ pc = "panic"
           /\ ~file.created
           /\ height = 0 /\ nodeTx = "none"
           /\ \A i \in 1..Len(calls) :
                /\ calls[i].m \notin {"getnewaddress", "generatetoaddress",
                                      "sendtoaddress"}
                /\ ~(calls[i].m = "loadwallet" /\ calls[i].s = LastCall.s)

\* createwallet "Trader" failed for another reason after "Miner" was loaded
C2_Witness ==
    /\ pc = "panic"
    /\ Len(calls) >= 2
    /\ LastCall = Call("createwallet", "node", "Trader", 0)
    /\ result = OtherText
    /\ calls[Len(calls) - 1].m = "loadwallet"

(***************************************************************************)
(* What the report is to hold, stated from the inputs of the run: the id   *)
(* returned by sendtoaddress, the gettransaction record of the transfer,   *)
(* the funding output it spends, and wallet B's receiving address.         *)
(***************************************************************************)
HasStringAddress(o) ==
    o.scriptPubKey.obj /\ o.scriptPubKey.has_address /\ o.scriptPubKey.address.t = "str"
\* an output with a numeric value and a string address
Usable(o) == o.value.t = "num" /\ HasStringAddress(o)
\* the last position of outs holding a usable output paying (or, with
\* `to` FALSE, not paying) trader; 0 when there is none
LastUsable(outs, trader, to) ==
    LET S == {i \in 1..Len(outs) :
                Usable(outs[i]) /\ ((outs[i].scriptPubKey.address.s = trader) <=> to)}
    IN IF S = {} THEN 0 ELSE CHOOSE i \in S : \A j \in S : j <= i
ExpectedAddress(outs, k) == IF k = 0 THEN "" ELSE outs[k].scriptPubKey.address.s
ExpectedAmount(outs, k) == IF k = 0 THEN 0 ELSE outs[k].value.n
ExpectedInputAddress(o) ==
    IF HasStringAddress(o) THEN o.scriptPubKey.address.s
    ELSE IF o.scriptPubKey.obj /\ o.scriptPubKey.asm.t = "str" THEN o.scriptPubKey.asm.s
    ELSE "unknown"

\* parts of C3: the shape of the file in a state, and what a step writes
C3_Shape ==
    /\ pc = "done" => file.created /\ Len(file.lines) = 10
    /\ Len(file.lines) <= 10
    /\ \A k \in 1..Len(file.lines) :
         file.lines[k].t = (IF k \in {1, 2, 4, 6, 10} THEN "str" ELSE "num")

C3_Order ==
    LET outs == tx_info.decoded.vout.items
        r == LastUsable(outs, trader_address, TRUE)
        c == LastUsable(outs, trader_address, FALSE)
        ten == << Str(txid),
                  Str(ExpectedInputAddress(input_vout_obj)),
                  Num(IF input_vout_obj.value.t = "num" THEN input_vout_obj.value.n ELSE 0),
                  Str(ExpectedAddress(outs, r)),
                  Num(ExpectedAmount(outs, r)),
                  Str(ExpectedAddress(outs, c)),
                  Num(ExpectedAmount(outs, c)),
                  Num(IF tx_info.fee.t = "num" THEN tx_info.fee.n ELSE 0),
                  Num(IF tx_info.blockheight.t = "num" THEN tx_info.blockheight.n ELSE 0),
                  Str(IF tx_info.blockhash.t = "str" THEN tx_info.blockhash.s
                      ELSE "unknown") >>
    IN /\ pc = "write" => IsPrefix(file'.lines, ten)
       /\ Completes => file'.lines = ten
       /\ pc # "write" => file' = file

(***************************************************************************)
(* C3: a run that completes leaves exactly ten lines in the output file,   *)
(* in the order transaction id, input address, input amount, recipient     *)
(* address, recipient amount, change address, change amount, fee, block    *)
(* height, block hash, whichever of them are defaults; and the file never  *)
(* holds anything but a leading part of those ten lines.                   *)
(***************************************************************************)
C3_TenLinesInOrder == C3_Shape /\ [][C3_Shape' /\ C3_Order]_vars

\* a completed run whose report holds defaults for the input address, the
\* recipient, the change, the fee, the height and the hash
C3_Witness ==
    /\ pc = "done"
    /\ Len(file.lines) = 10
    /\ file.lines[1] = Str("tx1")
    /\ file.lines[2] = Str("unknown")
    /\ file.lines[4] = Str("") /\ file.lines[5] = Num(0)
    /\ file.lines[6] = Str("") /\ file.lines[7] = Num(0)
    /\ file.lines[8] = Num(0) /\ file.lines[9] = Num(0)
    /\ file.lines[10] = Str("unknown")

(***************************************************************************)
(* C4: no gettransaction record ends the run during extraction: whatever   *)
(* is missing from it (decoded.vin or decoded.vout missing or not an       *)
(* array, an empty vin, vin[0].txid or vin[0].vout missing, an output      *)
(* index past the funding transaction's outputs), once gettransaction has  *)
(* answered the run does not panic in the extraction stage.                *)
(***************************************************************************)
C4_ExtractionNeverFatal ==
    (calls # <<>> /\ LastCall.m = "gettransaction" /\ result = "ok")
        => ~(pc = "panic" /\ error = "extraction")

(***************************************************************************)
(* C5: in the report of a completed run, the recipient address and amount  *)
(* are those of the last output with a numeric value and a string address  *)
(* equal to wallet B's receiving address, the change address and amount    *)
(* those of the last output with a numeric value and a string address      *)
(* different from it; other outputs change neither, and a category without *)
(* a matching output is reported as the empty string and 0.                *)
(***************************************************************************)
C5_LastMatchClassification ==
    [][ Completes =>
          LET outs == tx_info.decoded.vout.items
              r == LastUsable(outs, trader_address, TRUE)
              c == LastUsable(outs, trader_address, FALSE)
          IN /\ file'.lines[4] = Str(ExpectedAddress(outs, r))
             /\ file'.lines[5] = Num(ExpectedAmount(outs, r))
             /\ file'.lines[6] = Str(ExpectedAddress(outs, c))
             /\ file'.lines[7] = Num(ExpectedAmount(outs, c)) ]_vars

\* a completed run whose report carries the recipient-address output's
\* value on the recipient line and the other output's value on the change line
C5_Witness ==
    /\ pc = "done"
    /\ Len(file.lines) = 10
    /\ file.lines[4] = Str("bcrt1qtrader") /\ file.lines[5] = Num(20)
    /\ file.lines[6] = Str("bcrt1qchange") /\ file.lines[7] = Num(29)

(***************************************************************************)
(* C6: in the report of a completed run, the input address is the funding  *)
(* output's scriptPubKey address when that is a string; otherwise its asm  *)
(* when that is a string; otherwise "unknown".  The input amount is the    *)
(* funding output's value, or 0 when it has none.                          *)
(***************************************************************************)
C6_InputAddressFallback ==
    [][ Completes =>
          LET k == input_vout_obj.scriptPubKey IN
          /\ (k.obj /\ k.has_address /\ k.address.t = "str")
                => file'.lines[2] = Str(k.address.s)
          /\ (~(k.obj /\ k.has_address /\ k.address.t = "str")
                /\ k.obj /\ k.asm.t = "str")
                => file'.lines[2] = Str(k.asm.s) /\ file'.lines[2] # Str("unknown")
          /\ (~(k.obj /\ k.has_address /\ k.address.t = "str")
                /\ ~(k.obj /\ k.asm.t = "str"))
                => file'.lines[2] = Str("unknown")
          /\ file'.lines[3] = Num(IF input_vout_obj.value.t = "num"
                                  THEN input_vout_obj.value.n ELSE 0) ]_vars

\* a completed run whose funding output had no address and an asm
C6_Witness ==
    /\ pc = "done"
    /\ Len(file.lines) = 10
    /\ file.lines[2] = Str("OP_0 6d696e6572")
    /\ file.lines[3] = Num(50)

(***************************************************************************)
(* C7: in every run that goes on to the transfer, once the funding stage   *)
(* is over 103 blocks (100 plus a margin of 3) have been mined, all by one *)
(* generate call to the one address obtained from wallet A, and the mining *)
(* wallet has a spendable coinbase output (a balance above zero), a        *)
(* coinbase output being spendable with 100 further blocks on top.         *)
(***************************************************************************)
C7_FundedAfterFundingStage ==
    pc \in {"trader_address", "send"}
        => /\ BlocksMined = 103
           /\ BlocksMined >= 100 + 3
           /\ height = 103
           /\ coinbases = <<[lo |-> 1, hi |-> 103]>>
           /\ Cardinality({h \in 1..height : height - h >= 100}) > 0
           /\ Spendable > 0
           /\ Cardinality(CallsOf("generatetoaddress")) = 1
           /\ \A i \in CallsOf("generatetoaddress") :
                calls[i] = Call("generatetoaddress", "node", mining_address, 103)
           /\ Cardinality({i \in CallsOf("getnewaddress") : calls[i].w = "Miner"}) = 1
           /\ mining_address \in MinerAddresses

\* the funding stage is over and the transfer is about to be requested
C7_Witness ==
    /\ pc = "send"
    /\ BlocksMined = 103
    /\ Spendable = 3

(***************************************************************************)
(* C8: in the report of a completed run, the transaction id is the         *)
(* non-empty id returned by sendtoaddress (the id the transfer was looked  *)
(* up by), and the fee, block height and block hash are the fee,           *)
(* blockheight and blockhash of the gettransaction record for it, each     *)
(* replaced by 0, 0 and "unknown" when the record lacks it.                *)
(***************************************************************************)
C8_IdFeeHeightHash ==
    [][ Completes =>
          /\ txid # "" /\ txid \in Txids
          /\ file'.lines[1] = Str(txid)
          /\ \E i \in CallsOf("sendtoaddress") :
               /\ i + 3 <= Len(calls)
               /\ calls[i + 3] = Call("gettransaction", "Miner", txid, 0)
          /\ tx_info.fee.t = "num" => file'.lines[8] = Num(tx_info.fee.n)
          /\ tx_info.fee = Null => file'.lines[8] = Num(0)
          /\ tx_info.blockheight.t = "num"
               => file'.lines[9] = Num(tx_info.blockheight.n)
          /\ tx_info.blockheight = Null => file'.lines[9] = Num(0)
          /\ tx_info.blockhash.t = "str"
               => file'.lines[10] = Str(tx_info.blockhash.s)
          /\ tx_info.blockhash = Null => file'.lines[10] = Str("unknown") ]_vars

\* a completed run whose record held a fee, a height and a hash
C8_Witness ==
    /\ pc = "done"
    /\ Len(file.lines) = 10
    /\ file.lines[1] = Str("tx1")
    /\ file.lines[8] = Num(-1)
    /\ file.lines[9] = Num(104)
    /\ file.lines[10] = Str("hash104")

\* part of C9: the calls around sendtoaddress, as the log holds them
C9_Order ==
    LET n == Len(calls)
        sends == CallsOf("sendtoaddress")
    IN
    /\ Cardinality(sends) <= 1
    /\ nodeTx # "none" => sends # {}
    /\ pc = "done" => sends # {} /\ nodeTx = "confirmed"
    /\ \A i \in sends :
         /\ calls[i].w = "Miner" /\ calls[i].n = 20
         /\ calls[i - 1] = Call("getnewaddress", "Trader", "Trader Address", 0)
         /\ calls[i].s \in TraderAddresses
         /\ calls[i - 2].m = "generatetoaddress" /\ calls[i - 2].n = 103
         /\ \A j \in 1..n :
              /\ calls[j].m = "generatetoaddress" => j = i - 2 \/ j = i + 2
              /\ calls[j].m = "gettransaction" => j > i + 2
         /\ i + 1 <= n => /\ calls[i + 1].m = "getmempoolentry"
                          /\ calls[i + 1].w = "Miner"
                          /\ calls[i + 1].s \in Txids
         /\ i + 2 <= n => calls[i + 2] =
                            Call("generatetoaddress", "node", calls[i - 2].s, 1)
         /\ i + 3 <= n => calls[i + 3] =
                            Call("gettransaction", "Miner", calls[i + 1].s, 0)
         /\ (nodeTx = "confirmed") <=> (i + 2 <= n /\ (i + 2 < n \/ result = "ok"))

(***************************************************************************)
(* C9: a run makes at most one sendtoaddress call, and a run that          *)
(* completes exactly one, whose transaction is confirmed.  The call sends  *)
(* 20 from wallet A to the address obtained from wallet B, comes after the *)
(* 103 funding blocks, and is followed in this order by getmempoolentry    *)
(* for the returned id, one generate call of one block to wallet A's       *)
(* mining address, and only then gettransaction for that id.  The answer   *)
(* to getmempoolentry changes nothing but the position of the run.         *)
(***************************************************************************)
C9_OneTransferInOrder ==
    /\ C9_Order
    /\ [][ /\ C9_Order'
           /\ pc = "send" /\ pc' = "mempool"
                => calls' = Append(calls, Call("sendtoaddress", "Miner",
                                               trader_address, 20))
           /\ pc = "mempool" /\ pc' \notin Aborted
                => /\ pc' = "confirm"
                   /\ calls' = Append(calls, Call("getmempoolentry", "Miner", txid, 0))
                   /\ UNCHANGED <<locals, file, node>> ]_vars

\* a completed run: one transfer, confirmed
C9_Witness ==
    /\ pc = "done"
    /\ Cardinality(CallsOf("sendtoaddress")) = 1
    /\ nodeTx = "confirmed"
    /\ height = 104

\* parts of C10: the last result is none of the fatal ones; a fatal one has
\* ended the run
Tolerated ==
    \/ result = "ok"
    \/ calls # <<>> /\ LastCall.m = "createwallet" /\ result = ExistsText
    \/ calls # <<>> /\ LastCall.m = "loadwallet"

C10_FatalEndsRun == ~Tolerated => pc \in Aborted /\ ~file.created

(***************************************************************************)
(* C10: every failure of a client construction or RPC call, other than     *)
(* createwallet's "already exists" and any failure of loadwallet, ends the *)
(* run: the failed call is the last call made (nothing is issued after it  *)
(* and it is not issued again), the output file is not created, and the    *)
(* node keeps the blocks mined and the transaction sent before it.         *)
(***************************************************************************)
C10_FailFastNoRetry ==
    /\ C10_FatalEndsRun
    /\ [][ /\ C10_FatalEndsRun'
           /\ Tolerated /\ pc \notin Terminal
           /\ ~Tolerated' => /\ UNCHANGED <<file, node>>
                             /\ Len(calls') = Len(calls) + 1
           /\ height' >= height
           /\ IsPrefix(coinbases, coinbases')
           /\ nodeTx # "none" => nodeTx' # "none" ]_vars

\* the second gettransaction failed: the run is over with no report, the
\* 104 blocks and the confirmed transfer stay
C10_Witness ==
    /\ pc = "err"
    /\ result = OtherText
    /\ LastCall = Call("gettransaction", "Miner", "tx0", 0)
    /\ ~file.created
    /\ height = 104
    /\ nodeTx = "confirmed"

====
